---------------------------- MODULE Spec2Model ----------------------------
(***************************************************************************)
(* A model of dr_conversion_compare.py: the SLiM command builder, the      *)
(* output parser, the sweep/averaging loop (collect_data) and main.        *)
(*                                                                         *)
(* Python strings are TLA+ strings; TLC evaluates Len, SubSeq, Head, Tail  *)
(* and \o on them character by character.  A Python call either returns a  *)
(* value or raises: such results are records [kind, val] with kind         *)
(* "return" or "raise" (val then names the exception class).               *)
(***************************************************************************)
EXTENDS Integers, Sequences, FiniteSets, TLC

-----------------------------------------------------------------------------
(* Strings                                                                 *)

\* str.isspace for one character (the ASCII whitespace characters)
IsSpace(c) == c \in {" ", "\t", "\n", "\r", "\f"}

\* s.startswith(p)
startswith(s, p) == Len(s) >= Len(p) /\ SubSeq(s, 1, Len(p)) = p

\* the k-th smallest element of a finite set of integers
Kth(S, k) == CHOOSE x \in S : Cardinality({y \in S : y < x}) = k - 1

\* s.split(sep) for a one-character separator: the pieces between the
\* separators, empty pieces kept, always at least one piece
split_sep(s, sep) ==
    LET seps == {j \in 1..Len(s) : SubSeq(s, j, j) = sep}
        from(k) == IF k = 1 THEN 1 ELSE Kth(seps, k - 1) + 1
        to(k) == IF k = Cardinality(seps) + 1 THEN Len(s) ELSE Kth(seps, k) - 1
    IN  [k \in 1..(Cardinality(seps) + 1) |-> SubSeq(s, from(k), to(k))]

\* s.split(): the maximal runs of non-whitespace characters, in order.
\* split_ws_from(s, p) is the tokens that begin at position p or later: the
\* first one runs from q, the first non-whitespace position from p on, to
\* last, the end of the run that holds q.
RECURSIVE split_ws_from(_, _)
split_ws_from(s, p) ==
    LET black(j) == ~IsSpace(SubSeq(s, j, j))
        q == CHOOSE j \in p..Len(s) : black(j) /\ \A r \in p..(j - 1) : ~black(r)
        last == CHOOSE j \in q..Len(s) :
                    /\ j = Len(s) \/ ~black(j + 1)
                    /\ \A r \in q..j : black(r)
    IN  IF \A j \in p..Len(s) : ~black(j) THEN <<>>
        ELSE <<SubSeq(s, q, last)>> \o split_ws_from(s, last + 1)

split_ws(s) == split_ws_from(s, 1)

\* str(n) for an integer
DigitChar(d) == SubSeq("0123456789", d + 1, d + 1)

RECURSIVE NatToStr(_)
NatToStr(n) == IF n < 10 THEN DigitChar(n)
               ELSE NatToStr(n \div 10) \o DigitChar(n % 10)

IntToStr(n) == IF n < 0 THEN "-" \o NatToStr(-n) ELSE NatToStr(n)

RECURSIVE Pow(_, _)
Pow(b, n) == IF n = 0 THEN 1 ELSE b * Pow(b, n - 1)

\* n written with exactly w digits (leading zeros)
RECURSIVE PadNat(_, _)
PadNat(n, w) == IF w = 0 THEN "" ELSE PadNat(n \div 10, w - 1) \o DigitChar(n % 10)

-----------------------------------------------------------------------------
(* Results of calls                                                        *)

Return(v) == [kind |-> "return", val |-> v]
Raise(e)  == [kind |-> "raise", val |-> e]

-----------------------------------------------------------------------------
(* Parameter values and mappings                                           *)
(*                                                                         *)
(* A value of the parameter dict is an int, a bool, a str, or a float.  A  *)
(* float parameter is only ever formatted, so it is held as its shortest   *)
(* decimal form i / 10^dp (0.055 is i = 55, dp = 3; 1.0 is i = 10, dp = 1),*)
(* which is what str() of the float prints.                                *)

IntV(n)       == [t |-> "int",   i |-> n, dp |-> 0, s |-> ""]
BoolV(b)      == [t |-> "bool",  i |-> IF b THEN 1 ELSE 0, dp |-> 0, s |-> ""]
FloatV(n, dp) == [t |-> "float", i |-> n, dp |-> dp, s |-> ""]
StrV(s)       == [t |-> "str",   i |-> 0, dp |-> 0, s |-> s]

\* f"{v}" for a value that is not a bool
format_value(v) ==
    CASE v.t = "int"   -> IntToStr(v.i)
      [] v.t = "float" -> NatToStr(v.i \div Pow(10, v.dp)) \o "."
                          \o PadNat(v.i % Pow(10, v.dp), v.dp)
      [] v.t = "str"   -> v.s
      [] v.t = "bool"  -> IF v.i = 1 THEN "True" ELSE "False"

\* A dict is the sequence of its items [k, v] in insertion order, keys distinct.
dict_has(d, k) == \E j \in 1..Len(d) : d[j].k = k

dict_get(d, k) == d[CHOOSE j \in 1..Len(d) : d[j].k = k].v

\* d[k] = v: an existing key keeps its place, a new key goes last
dict_set(d, k, v) ==
    IF dict_has(d, k)
    THEN [j \in 1..Len(d) |-> IF d[j].k = k THEN [k |-> k, v |-> v] ELSE d[j]]
    ELSE Append(d, [k |-> k, v |-> v])

\* d.copy(): a new dict with the same items (values are immutable)
dict_copy(d) == d

-----------------------------------------------------------------------------
(* configure_slim_command_line                                             *)

\* one pass of the for loop: the text added to clargs for key d[j].k
clarg_of(item) ==
    IF item.k = "source" THEN ""
    ELSE IF item.v.t = "bool"
         THEN "-d " \o item.k \o "=" \o (IF item.v.i = 1 THEN "T" ELSE "F") \o " "
         ELSE "-d " \o item.k \o "=" \o format_value(item.v) \o " "

RECURSIVE clargs_loop(_, _, _)
clargs_loop(d, j, clargs) ==
    IF j > Len(d) THEN clargs
    ELSE clargs_loop(d, j + 1, clargs \o clarg_of(d[j]))

configure_slim_command_line(args) ==
    IF ~dict_has(args, "source") THEN Raise("KeyError")
    ELSE LET source == format_value(dict_get(args, "source"))
             clargs == clargs_loop(args, 1, "slim ")
         IN  Return(split_ws(clargs \o source))

-----------------------------------------------------------------------------
(* parse_slim                                                              *)

MARKER == "PYTHON:: "

\* dr_rate bound before the loop to a value left by an earlier run
StaleBound == [bound |-> TRUE, val |-> "1.0"]

\* dr_rate is a local that is unbound until the first marker line assigns it
Unbound == [bound |-> FALSE, val |-> ""]
Bound(v) == [bound |-> TRUE, val |-> v]

\* spaced_line[8]: the index the example of C2 would need
field_after_marker(spaced_line) == spaced_line[9]

\* spaced_line[7] (Python counts from 0, TLA+ sequences from 1)
field_of(spaced_line) == spaced_line[8]

RECURSIVE parse_loop(_, _, _)
parse_loop(lines, j, dr_rate) ==
    IF j > Len(lines)
    THEN IF dr_rate.bound THEN Return(dr_rate.val) ELSE Raise("UnboundLocalError")
    ELSE IF startswith(lines[j], MARKER)
         THEN LET spaced_line == split_ws(lines[j])
              IN  IF Len(spaced_line) < 8 THEN Raise("IndexError")
                  ELSE parse_loop(lines, j + 1, Bound(field_of(spaced_line)))
         ELSE parse_loop(lines, j + 1, dr_rate)

parse_slim(slim_string) == parse_loop(split_sep(slim_string, "\n"), 1, Unbound)

-----------------------------------------------------------------------------
(* Natural numbers of any size                                             *)
(*                                                                         *)
(* A double's significand has 53 bits, more than an integer of the model   *)
(* checker holds, so a big natural is the sequence of its digits in base   *)
(* 2^15 = 32768 (a chunk), most significant first, without leading zero    *)
(* chunks; zero is << >>.                                                  *)

Max(m, n) == IF m >= n THEN m ELSE n
Min(m, n) == IF m <= n THEN m ELSE n

\* chunk k of b counted from the right, k = 0 the lowest (0 beyond the top)
Chunk(b, k) == IF 0 <= k /\ k < Len(b) THEN b[Len(b) - k] ELSE 0

\* b without its leading zero chunks
Trim(b) ==
    IF \A j \in 1..Len(b) : b[j] = 0 THEN <<>>
    ELSE SubSeq(b, CHOOSE j \in 1..Len(b) :
                       b[j] # 0 /\ \A k \in 1..(j - 1) : b[k] = 0, Len(b))

\* the big natural of n < 2^31
NatToBig(n) == Trim(<<n \div 1073741824, (n \div 32768) % 32768, n % 32768>>)

\* a + b + c from chunk k up, c the carry in
RECURSIVE BAddC(_, _, _, _)
BAddC(a, b, k, c) ==
    IF k >= Len(a) /\ k >= Len(b) THEN (IF c = 0 THEN <<>> ELSE <<c>>)
    ELSE Append(BAddC(a, b, k + 1, (Chunk(a, k) + Chunk(b, k) + c) \div 32768),
                (Chunk(a, k) + Chunk(b, k) + c) % 32768)

BAdd(a, b) == BAddC(a, b, 0, 0)

\* a - b - c from chunk k up for a >= b, c the borrow in
RECURSIVE BSubC(_, _, _, _)
BSubC(a, b, k, c) ==
    IF k >= Len(a) THEN <<>>
    ELSE Append(BSubC(a, b, k + 1, IF Chunk(a, k) - Chunk(b, k) - c < 0 THEN 1 ELSE 0),
                (Chunk(a, k) - Chunk(b, k) - c) % 32768)

BSub(a, b) == Trim(BSubC(a, b, 0, 0))

\* a < b
BLess(a, b) ==
    \/ Len(a) < Len(b)
    \/ /\ Len(a) = Len(b)
       /\ \E j \in 1..Len(a) : /\ a[j] < b[j]
                               /\ \A k \in 1..(j - 1) : a[k] = b[k]

\* the number of bits of b (0 for zero)
BitLen(b) ==
    IF b = <<>> THEN 0
    ELSE 15 * (Len(b) - 1)
         + (CHOOSE n \in 1..15 : 2 ^ (n - 1) <= b[1] /\ b[1] < 2 ^ n)

\* bit k of b, bit 0 the lowest
BitAt(b, k) == (Chunk(b, k \div 15) \div (2 ^ (k % 15))) % 2

\* the k lowest bits of b are all zero
LowBitsZero(b, k) ==
    /\ \A t \in 0..((k \div 15) - 1) : Chunk(b, t) = 0
    /\ Chunk(b, k \div 15) % (2 ^ (k % 15)) = 0

\* b * 2^k
ShiftL(b, k) ==
    LET f == 2 ^ (k % 15)
        n == Len(b)
        part == [j \in 1..(n + 1) |->
                    ((Chunk(b, n + 1 - j) * f) % 32768)
                    + ((Chunk(b, n - j) * f) \div 32768)]
    IN  IF b = <<>> THEN <<>>
        ELSE Trim(part) \o [j \in 1..(k \div 15) |-> 0]

\* b \div 2^k
ShiftR(b, k) ==
    LET f == 2 ^ (k % 15)
        g == 2 ^ (15 - (k % 15))
        b1 == SubSeq(b, 1, Len(b) - (k \div 15))
        n == Len(b1)
    IN  Trim([j \in 1..n |-> (Chunk(b1, n - j) \div f)
                             + ((Chunk(b1, n - j + 1) % f) * g)])

\* the number of zero bits that end b, b # 0
TrailingZeros(b) ==
    CHOOSE k \in 0..(15 * Len(b)) : BitAt(b, k) = 1 /\ LowBitsZero(b, k)

\* long division of n by d < 2^16, from chunk j of n on with remainder r so
\* far: the quotient's chunks and the remainder
RECURSIVE DivChunks(_, _, _, _)
DivChunks(n, d, j, r) ==
    IF j > Len(n) THEN [q |-> <<>>, r |-> r]
    ELSE LET rest == DivChunks(n, d, j + 1, (32768 * r + n[j]) % d)
         IN  [q |-> <<(32768 * r + n[j]) \div d>> \o rest.q, r |-> rest.r]

DivSmall(n, d) ==
    LET qr == DivChunks(n, d, 1, 0)
    IN  [q |-> Trim(qr.q), r |-> qr.r]

-----------------------------------------------------------------------------
(* Python floats: IEEE 754 binary64, round to nearest, ties to even        *)
(*                                                                         *)
(* A finite double is [s, m, e], the number (-1)^s * m * 2^e with m a big  *)
(* natural of exactly PREC bits; zero is [0, << >>, 0] (the sign of a zero *)
(* is not kept: no comparison or result of the program tells -0.0 from     *)
(* 0.0).  The program's numbers lie in [-20, 20] and are never smaller     *)
(* than 2^-60 unless zero, so no exponent limit is reached.                *)

PREC == 53

Zero == [s |-> 0, m |-> <<>>, e |-> 0]

\* the double nearest to the exact number (-1)^s * n * 2^e0, n any big natural
Round(s, n, e0) ==
    LET len == BitLen(n)
        k == len - PREC
        q == ShiftR(n, k)
        up == /\ BitAt(n, k - 1) = 1
              /\ (~LowBitsZero(n, k - 1) \/ BitAt(q, 0) = 1)
        q1 == IF up THEN BAdd(q, <<1>>) ELSE q
    IN  IF n = <<>> THEN Zero
        ELSE IF len <= PREC THEN [s |-> s, m |-> ShiftL(n, PREC - len), e |-> e0 + k]
        ELSE IF BitLen(q1) > PREC THEN [s |-> s, m |-> ShiftR(q1, 1), e |-> e0 + k + 1]
        ELSE [s |-> s, m |-> q1, e |-> e0 + k]

FromNat(n) == Round(0, NatToBig(n), 0)
Neg(a) == IF a.m = <<>> THEN a ELSE [a EXCEPT !.s = 1 - a.s]

\* a + b on floats: the exact sum, rounded
FAdd(a, b) ==
    IF a.m = <<>> THEN b
    ELSE IF b.m = <<>> THEN a
    ELSE LET e0 == Min(a.e, b.e)
             am == ShiftL(a.m, a.e - e0)
             bm == ShiftL(b.m, b.e - e0)
         IN  IF a.s = b.s THEN Round(a.s, BAdd(am, bm), e0)
             ELSE IF BLess(am, bm) THEN Round(b.s, BSub(bm, am), e0)
             ELSE Round(a.s, BSub(am, bm), e0)

\* a - b on floats
FSub(a, b) == FAdd(a, Neg(b))

\* fabs(a) >= fabs(b)
AbsGeq(a, b) ==
    IF a.m = <<>> THEN b.m = <<>>
    ELSE IF b.m = <<>> THEN TRUE
    ELSE a.e > b.e \/ (a.e = b.e /\ ~BLess(a.m, b.m))

\* a / b on floats, for b = d * 2^t with d odd and below 2^16 (the program
\* divides by 0.5, by the count 20 and, in float(), by a power of 10).  The
\* quotient is taken to more than PREC + 2 bits; a remainder is kept as a
\* last 1 bit, which rounds as the exact quotient does.
FDiv(a, b) ==
    LET t == TrailingZeros(b.m)
        odd == ShiftR(b.m, t)
        d == 32768 * Chunk(odd, 1) + Chunk(odd, 0)
        ext == 3 + BitLen(odd)
        qr == DivSmall(ShiftL(a.m, ext), d)
        s == IF a.s = b.s THEN 0 ELSE 1
        e0 == a.e - ext - (b.e + t)
    IN  IF a.m = <<>> THEN Zero
        ELSE IF qr.r = 0 THEN Round(s, qr.q, e0)
        ELSE Round(s, BAdd(ShiftL(qr.q, 1), <<1>>), e0 - 1)

HALF == [s |-> 0, m |-> <<128, 0, 0, 0>>, e |-> -53]

-----------------------------------------------------------------------------
(* float(str)                                                              *)
(*                                                                         *)
(* The simulator prints the rate in fixed-point form; float() of an        *)
(* optional sign, digits and at most one point is the double nearest to    *)
(* the decimal.  A token with any other character raises ValueError (the   *)
(* exponent, "inf", "nan" and "_" forms that float() also accepts are not  *)
(* among the tokens considered).                                           *)

IsDigit(c) == c \in {"0", "1", "2", "3", "4", "5", "6", "7", "8", "9"}
DigitVal(c) == CHOOSE d \in 0..9 : DigitChar(d) = c

RECURSIVE StrToNat(_)
StrToNat(s) == IF s = "" THEN 0
               ELSE 10 * StrToNat(SubSeq(s, 1, Len(s) - 1))
                    + DigitVal(SubSeq(s, Len(s), Len(s)))

float(tok) ==
    LET signed == tok # "" /\ Head(tok) \in {"-", "+"}
        body == IF signed THEN Tail(tok) ELSE tok
        dots == {j \in 1..Len(body) : SubSeq(body, j, j) = "."}
        dot == IF dots = {} THEN Len(body) + 1 ELSE CHOOSE j \in dots : TRUE
        digits == SubSeq(body, 1, dot - 1) \o SubSeq(body, dot + 1, Len(body))
        dp == Len(body) - Min(dot, Len(body))
        ok == /\ Cardinality(dots) <= 1
              /\ digits # ""
              /\ \A j \in 1..Len(digits) : IsDigit(SubSeq(digits, j, j))
        mag == FDiv(FromNat(StrToNat(digits)), FromNat(Pow(10, dp)))
    IN  IF ~ok THEN Raise("ValueError")
        ELSE Return(IF signed /\ Head(tok) = "-" THEN Neg(mag) ELSE mag)

-----------------------------------------------------------------------------
(* calculate_average                                                       *)

\* sum(nums) of a list of floats as CPython before 3.12 computes it: the
\* start value 0 plus the first item is that item, then one rounded addition
\* per item (total is the sum of the items before j)
RECURSIVE sum_plain(_, _, _)
sum_plain(nums, j, total) ==
    IF j > Len(nums) THEN total
    ELSE IF total.m = <<>> THEN sum_plain(nums, j + 1, nums[j])
    ELSE sum_plain(nums, j + 1, FAdd(total, nums[j]))

\* cs_add: one step of Neumaier's compensated summation, total = (hi, lo)
cs_add(total, xj) ==
    LET t == FAdd(total.hi, xj)
    IN  IF AbsGeq(total.hi, xj)
        THEN [hi |-> t, lo |-> FAdd(total.lo, FAdd(FSub(total.hi, t), xj))]
        ELSE [hi |-> t, lo |-> FAdd(total.lo, FAdd(FSub(xj, t), total.hi))]

\* sum(nums) as CPython 3.12 and later computes it: cs_add of every item
\* after the first, then cs_to_double
RECURSIVE sum_compensated(_, _, _)
sum_compensated(nums, j, total) ==
    IF j > Len(nums)
    THEN IF total.lo.m # <<>> THEN FAdd(total.hi, total.lo) ELSE total.hi
    ELSE IF total.hi.m = <<>> /\ total.lo.m = <<>>
    THEN sum_compensated(nums, j + 1, [hi |-> nums[j], lo |-> Zero])
    ELSE sum_compensated(nums, j + 1, cs_add(total, nums[j]))

\* the interpreters the script runs under differ in sum()
Interpreters == {"plain", "compensated"}

sum(nums, interp) ==
    IF nums = <<>> THEN Zero
    ELSE IF interp = "plain" THEN sum_plain(nums, 1, Zero)
    ELSE sum_compensated(nums, 2, [hi |-> nums[1], lo |-> Zero])

\* sum(nums) / (count - 1): the mean with the count off by one
average_off_by_one(nums, interp) ==
    LET total == sum(nums, interp)
        count == Len(nums)
    IN  IF count > 1 THEN FDiv(total, FromNat(count - 1)) ELSE Zero

calculate_average(nums, interp) ==
    LET total == sum(nums, interp)
        count == Len(nums)
    IN  IF count > 0 THEN FDiv(total, FromNat(count)) ELSE Zero

\* (slim_result - 0.5) / 0.5
drive_conversion_of(slim_result) == FDiv(FSub(slim_result, HALF), HALF)

-----------------------------------------------------------------------------
(* run_slim and the simulator                                              *)
(*                                                                         *)
(* A finished child process is [out, err, rc]: what it wrote to its        *)
(* standard output and standard error, and its exit status (negative when  *)
(* a signal killed it).                                                    *)

\* out, err = slim.communicate(); return out
run_slim(finished) == Return(finished.out)

\* What the simulator does is the environment's choice.  A simulator is
\* [dflt, at, special]: its invocation number `at` ends as `special`, every
\* other one as `dflt` (at = 0: none is special).
GoodOut(rate) == "seed 7\nPYTHON:: a b c d e f " \o rate \o " h\n"
Good(rate) == [out |-> GoodOut(rate), err |-> "", rc |-> 0]

Rates == {"1.0", "0.5", "0.036"}

Crashed     == [out |-> "", err |-> "Segmentation fault", rc |-> -11]
FailedExit  == [out |-> GoodOut("0.9"), err |-> "ERROR (Eidos)", rc |-> 1]
NoMarker    == [out |-> "seed 7\n", err |-> "", rc |-> 0]
SpecExample == [out |-> "PYTHON:: a b c d e f g 0.73 h", err |-> "", rc |-> 0]
OtherRate   == Good("0.9")

Specials == {Crashed, FailedExit, NoMarker, SpecExample, OtherRate}

\* the invocations that may be special: in the first sweep point of the old
\* pass, and the first invocation of the new pass
SpecialAt == {3, 241}

Simulators ==
    {[dflt |-> Good(r), at |-> 0, special |-> Good(r)] : r \in Rates}
    \cup {[dflt |-> Good("1.0"), at |-> n, special |-> f] :
              n \in SpecialAt, f \in Specials}

simulate(simulator, n) ==
    IF n = simulator.at THEN simulator.special ELSE simulator.dflt

-----------------------------------------------------------------------------
(* main and collect_data                                                   *)

total_runs == 20
range_stop == 13

DEFAULT_SOURCE == "one_gen_full_modified.slim"

\* Python dicts are objects: heap is the sequence of the dicts created so
\* far, and a variable that names a dict holds its index in heap (0: none).
\* d.copy() makes a new object; store writes the dict behind a reference.

\* args_dict_old = args_dict: a second name for the same dict, no copy
alias_ref(h, r) == r

\* the reference of the new dict that heap[r].copy() makes
copy_ref(h, r) == Len(h) + 1
store(h, r, d) == IF r = Len(h) + 1 THEN Append(h, d) ELSE [h EXCEPT ![r] = d]

\* args_dict_old[...] = ... (lines 155-160)
old_settings(d) ==
    dict_set(dict_set(dict_set(dict_set(dict_set(dict_set(d,
        "DRIVE_FITNESS_VALUE", FloatV(9, 1)),
        "FEMALE_SOMATIC_FITNESS_VALUE", FloatV(10, 1)),
        "GENE_DISRUPTION_DRIVE_FITNESS_MULTIPLIER", FloatV(95, 2)),
        "R1_OCCURRENCE_RATE", FloatV(1, 2)),
        "HOMING_EDGE_EFFECT", FloatV(55, 3)),
        "DOUBLE_MISMATCH_PENALTY", FloatV(10, 1))

\* args_dict_new[...] = ... (lines 166-171)
new_settings(d) ==
    dict_set(dict_set(dict_set(dict_set(dict_set(dict_set(d,
        "DRIVE_FITNESS_VALUE", FloatV(10, 1)),
        "FEMALE_SOMATIC_FITNESS_VALUE", FloatV(10, 1)),
        "GENE_DISRUPTION_DRIVE_FITNESS_MULTIPLIER", FloatV(10, 1)),
        "R1_OCCURRENCE_RATE", FloatV(1, 2)),
        "HOMING_EDGE_EFFECT", FloatV(83, 3)),
        "DOUBLE_MISMATCH_PENALTY", FloatV(313, 3))

\* args_dict['NUM_GRNAS'] = num_grnas - 1: the sweep counted from 0
set_sweep_from_zero(d, n) == dict_set(d, "NUM_GRNAS", IntV(n - 1))

\* args_dict['NUM_GRNAS'] = num_grnas
set_sweep(d, n) == dict_set(d, "NUM_GRNAS", IntV(n))

\* plot(new, old): the two sequences the other way round
plot_swapped(old, new) == [old |-> new, new |-> old]

\* the arguments plot() is called with
plot(old, new) == [old |-> old, new |-> new]

VARIABLES
    pc,                \* where main is: "main", "sweep", "runs", "wait",
                       \* "plot", "done", or "raised" (uncaught exception)
    err,               \* the exception that ended the program ("" if none)
    interpreter,       \* which sum() the interpreter has
    sim,               \* the simulator's behaviour
    invocations,       \* child processes started so far
    live,              \* child processes started and not yet waited for
    proc,              \* the argv of the last child process started
    heap,              \* the dict objects
    args_dict, args_dict_old, args_dict_new,   \* main's dicts (references)
    param,             \* collect_data's args_dict (a reference)
    calls,             \* child processes started by this collect_data call
    num_grnas, i,      \* collect_data's loop variables
    drive_conversions, drive_conversion_ngrnas,
    drive_conversion_ngrnas_old, drive_conversion_ngrnas_new,
    plot_calls,        \* the calls of plot() so far
    cmd_args, cmd_result,      \* the command builder alone: argument, result
    slim_string, parse_result  \* the parser alone: argument, result

main_vars == <<pc, err, interpreter, sim, invocations, live, proc, heap,
               args_dict, args_dict_old, args_dict_new, param, calls,
               num_grnas, i, drive_conversions, drive_conversion_ngrnas,
               drive_conversion_ngrnas_old, drive_conversion_ngrnas_new,
               plot_calls>>
cmd_vars == <<cmd_args, cmd_result>>
parse_vars == <<slim_string, parse_result>>
vars == <<main_vars, cmd_vars, parse_vars>>

NotCalled == [kind |-> "none", val |-> ""]

CmdIdle == cmd_args = <<>> /\ cmd_result = NotCalled
ParseIdle == slim_string = "" /\ parse_result = NotCalled

MainStart ==
    /\ pc = "main" /\ err = ""
    /\ invocations = 0 /\ live = 0 /\ proc = <<>>
    /\ heap = <<>>
    /\ args_dict = 0 /\ args_dict_old = 0 /\ args_dict_new = 0 /\ param = 0
    /\ calls = 0 /\ num_grnas = 0 /\ i = 0
    /\ drive_conversions = <<>> /\ drive_conversion_ngrnas = <<>>
    /\ drive_conversion_ngrnas_old = <<>> /\ drive_conversion_ngrnas_new = <<>>
    /\ plot_calls = <<>>

Init ==
    /\ MainStart
    /\ interpreter \in Interpreters
    /\ sim \in Simulators
    /\ CmdIdle /\ ParseIdle

\* an uncaught exception ends the program
raise(e) == pc' = "raised" /\ err' = e

\* main, lines 144-162: parse the arguments, build args_dict and
\* args_dict_old, and enter collect_data(args_dict_old) (line 124)
main_old ==
    /\ pc = "main"
    /\ LET base == <<[k |-> "source", v |-> StrV(DEFAULT_SOURCE)],
                     [k |-> "CAPACITY", v |-> IntV(50000000)],
                     [k |-> "DROP_SIZE", v |-> IntV(1000)]>>
           h1 == <<base>>
           r == copy_ref(h1, 1)
           h2 == store(h1, r, dict_copy(h1[1]))
       IN  /\ args_dict' = 1
           /\ args_dict_old' = r
           /\ heap' = store(h2, r, old_settings(h2[r]))
           /\ param' = r
    /\ drive_conversion_ngrnas' = <<>>
    /\ num_grnas' = 0 /\ calls' = 0
    /\ pc' = "sweep"
    /\ UNCHANGED <<err, interpreter, sim, invocations, live, proc,
                   args_dict_new, i, drive_conversions,
                   drive_conversion_ngrnas_old, drive_conversion_ngrnas_new,
                   plot_calls, cmd_vars, parse_vars>>

\* collect_data, lines 125-129: the next sweep point
sweep_point ==
    /\ pc = "sweep" /\ num_grnas + 1 < range_stop
    /\ num_grnas' = num_grnas + 1
    /\ drive_conversions' = <<>>
    /\ heap' = store(heap, param, set_sweep(heap[param], num_grnas + 1))
    /\ i' = 0
    /\ pc' = "runs"
    /\ UNCHANGED <<err, interpreter, sim, invocations, live, proc,
                   args_dict, args_dict_old, args_dict_new, param, calls,
                   drive_conversion_ngrnas,
                   drive_conversion_ngrnas_old, drive_conversion_ngrnas_new,
                   plot_calls, cmd_vars, parse_vars>>

\* lines 130-133 and 87: build the command and start the child process
launch ==
    /\ pc = "runs" /\ i < total_runs
    /\ LET clargs == configure_slim_command_line(heap[param])
       IN  IF clargs.kind = "raise"
           THEN raise(clargs.val) /\ UNCHANGED <<proc, live, invocations, calls>>
           ELSE /\ proc' = clargs.val
                /\ live' = live + 1
                /\ invocations' = invocations + 1
                /\ calls' = calls + 1
                /\ pc' = "wait"
                /\ err' = err
    /\ UNCHANGED <<interpreter, sim, heap,
                   args_dict, args_dict_old, args_dict_new, param,
                   num_grnas, i, drive_conversions, drive_conversion_ngrnas,
                   drive_conversion_ngrnas_old, drive_conversion_ngrnas_new,
                   plot_calls, cmd_vars, parse_vars>>

\* lines 91-93 and 134-137: the child process ends; parse its output,
\* convert, transform, append
complete ==
    /\ pc = "wait"
    /\ live' = live - 1
    /\ LET slim_outcome == run_slim(simulate(sim, invocations))
           parsed_result == parse_slim(slim_outcome.val)
           slim_result == float(parsed_result.val)
       IN  IF slim_outcome.kind = "raise"
           THEN raise(slim_outcome.val) /\ UNCHANGED <<i, drive_conversions>>
           ELSE IF parsed_result.kind = "raise"
           THEN raise(parsed_result.val) /\ UNCHANGED <<i, drive_conversions>>
           ELSE IF slim_result.kind = "raise"
           THEN raise(slim_result.val) /\ UNCHANGED <<i, drive_conversions>>
           ELSE /\ drive_conversions' =
                       Append(drive_conversions, drive_conversion_of(slim_result.val))
                /\ i' = i + 1
                /\ pc' = "runs"
                /\ err' = err
    /\ UNCHANGED <<interpreter, sim, invocations, proc, heap,
                   args_dict, args_dict_old, args_dict_new, param, calls,
                   num_grnas, drive_conversion_ngrnas,
                   drive_conversion_ngrnas_old, drive_conversion_ngrnas_new,
                   plot_calls, cmd_vars, parse_vars>>

\* line 138: the mean of this sweep point
point_end ==
    /\ pc = "runs" /\ i = total_runs
    /\ drive_conversion_ngrnas' =
           Append(drive_conversion_ngrnas,
                  calculate_average(drive_conversions, interpreter))
    /\ pc' = "sweep"
    /\ UNCHANGED <<err, interpreter, sim, invocations, live, proc, heap,
                   args_dict, args_dict_old, args_dict_new, param, calls,
                   num_grnas, i, drive_conversions,
                   drive_conversion_ngrnas_old, drive_conversion_ngrnas_new,
                   plot_calls, cmd_vars, parse_vars>>

\* line 140 and main, lines 162-173: collect_data(args_dict_old) returns;
\* build args_dict_new and enter collect_data(args_dict_new)
main_new ==
    /\ pc = "sweep" /\ num_grnas + 1 = range_stop
    /\ param = args_dict_old /\ args_dict_new = 0
    /\ drive_conversion_ngrnas_old' = drive_conversion_ngrnas
    /\ LET r == copy_ref(heap, args_dict)
           h2 == store(heap, r, dict_copy(heap[args_dict]))
       IN  /\ args_dict_new' = r
           /\ heap' = store(h2, r, new_settings(h2[r]))
           /\ param' = r
    /\ drive_conversion_ngrnas' = <<>>
    /\ num_grnas' = 0 /\ calls' = 0
    /\ UNCHANGED <<pc, err, interpreter, sim, invocations, live, proc,
                   args_dict, args_dict_old, i, drive_conversions,
                   drive_conversion_ngrnas_new, plot_calls,
                   cmd_vars, parse_vars>>

\* line 140 and main, line 173: collect_data(args_dict_new) returns
main_collected ==
    /\ pc = "sweep" /\ num_grnas + 1 = range_stop
    /\ param = args_dict_new
    /\ drive_conversion_ngrnas_new' = drive_conversion_ngrnas
    /\ pc' = "plot"
    /\ UNCHANGED <<err, interpreter, sim, invocations, live, proc, heap,
                   args_dict, args_dict_old, args_dict_new, param, calls,
                   num_grnas, i, drive_conversions, drive_conversion_ngrnas,
                   drive_conversion_ngrnas_old, plot_calls,
                   cmd_vars, parse_vars>>

\* main, line 176
main_plot ==
    /\ pc = "plot"
    /\ plot_calls' = Append(plot_calls,
                            plot(drive_conversion_ngrnas_old,
                                 drive_conversion_ngrnas_new))
    /\ pc' = "done"
    /\ UNCHANGED <<err, interpreter, sim, invocations, live, proc, heap,
                   args_dict, args_dict_old, args_dict_new, param, calls,
                   num_grnas, i, drive_conversions, drive_conversion_ngrnas,
                   drive_conversion_ngrnas_old, drive_conversion_ngrnas_new,
                   cmd_vars, parse_vars>>

Next ==
    \/ main_old
    \/ sweep_point
    \/ launch
    \/ complete
    \/ point_end
    \/ main_new
    \/ main_collected
    \/ main_plot

Spec == Init /\ [][Next]_vars

-----------------------------------------------------------------------------
(* configure_slim_command_line alone, on bounded mappings                  *)

MaxParams == 2

ParamNames == {"N", "DROP_SIZE", "X"}
ParamValues == {IntV(3), BoolV(TRUE), BoolV(FALSE), FloatV(55, 3)}
Sources == {"m.slim", "my file.slim", ""}

ParamItems == {[k |-> nm, v |-> vl] : nm \in ParamNames, vl \in ParamValues}

\* the lists of n items with distinct keys
ParamLists(n) ==
    {f \in [1..n -> ParamItems] : \A a, b \in 1..n : f[a].k = f[b].k => a = b}

\* f with the "source" item put in at position p
WithSource(f, p, src) ==
    [j \in 1..(Len(f) + 1) |->
        IF j < p THEN f[j]
        ELSE IF j = p THEN [k |-> "source", v |-> StrV(src)]
        ELSE f[j - 1]]

ArgDictsOf(n) ==
    {WithSource(f, p, src) : f \in ParamLists(n), p \in 1..(n + 1), src \in Sources}

ArgDicts == UNION {ArgDictsOf(n) : n \in 0..MaxParams}

MainIdle ==
    /\ MainStart
    /\ interpreter = "plain"
    /\ sim = [dflt |-> Good("1.0"), at |-> 0, special |-> Good("1.0")]

InitCmd ==
    /\ MainIdle /\ ParseIdle
    /\ cmd_args \in ArgDicts
    /\ cmd_result = NotCalled

call_configure ==
    /\ cmd_result = NotCalled
    /\ cmd_result' = configure_slim_command_line(cmd_args)
    /\ UNCHANGED <<cmd_args, main_vars, parse_vars>>

NextCmd == call_configure

SpecCmd == InitCmd /\ [][NextCmd]_vars

-----------------------------------------------------------------------------
(* parse_slim alone, on bounded texts                                      *)

MaxLines == 3

SPEC_LINE == "PYTHON:: a b c d e f g 0.73 h"

Lines == {SPEC_LINE,
          "PYTHON:: a b c d e f 0.9 h",
          "PYTHON:: \ta  b c d e f 1.0",
          "PYTHON:: a b",
          "PYTHON::a b c d e f g h i",
          "x PYTHON:: a b c d e f g 0.5",
          ""}

\* the lines of f joined by "\n"
RECURSIVE JoinLines(_, _)
JoinLines(f, n) == IF n = 0 THEN ""
                   ELSE IF n = 1 THEN f[1]
                   ELSE JoinLines(f, n - 1) \o "\n" \o f[n]

Texts == {JoinLines(f, n) : f \in [1..MaxLines -> Lines], n \in 0..MaxLines}

InitParse ==
    /\ MainIdle /\ CmdIdle
    /\ slim_string \in Texts
    /\ parse_result = NotCalled

call_parse_slim ==
    /\ parse_result = NotCalled
    /\ parse_result' = parse_slim(slim_string)
    /\ UNCHANGED <<slim_string, main_vars, cmd_vars>>

NextParse == call_parse_slim

SpecParse == InitParse /\ [][NextParse]_vars

-----------------------------------------------------------------------------
(* Properties of configure_slim_command_line, under SpecCmd                *)

\* the value of an entry as the claim renders it
rendered(v) == IF v.t = "bool" THEN (IF v.i = 1 THEN "T" ELSE "F")
               ELSE format_value(v)

\* "-d", "NAME=VALUE" for every entry of d from position j on but "source"
RECURSIVE define_pairs(_, _)
define_pairs(d, j) ==
    IF j > Len(d) THEN <<>>
    ELSE (IF d[j].k = "source" THEN <<>>
          ELSE <<"-d", d[j].k \o "=" \o rendered(d[j].v)>>)
         \o define_pairs(d, j + 1)

\* C1: for every parameter mapping that has a "source" entry,
\* configure_slim_command_line returns the token list "slim", then the pair
\* "-d", "NAME=VALUE" for each entry other than "source" in the order of the
\* mapping (booleans as T and F), then the source path as the last token:
\* 1 + 2N + 1 tokens for N entries other than "source".
C1_TokenList ==
    cmd_result # NotCalled =>
        /\ cmd_result = Return(<<"slim">> \o define_pairs(cmd_args, 1)
                               \o <<dict_get(cmd_args, "source").s>>)
        /\ Len(cmd_result.val) = 1 + 2 * (Len(cmd_args) - 1) + 1

-----------------------------------------------------------------------------
(* Properties of parse_slim, under SpecParse                               *)

parsed == parse_result # NotCalled

text_lines == split_sep(slim_string, "\n")

marker_lines == {j \in 1..Len(text_lines) : startswith(text_lines[j], MARKER)}

last_marker_line ==
    text_lines[CHOOSE j \in marker_lines : \A k \in marker_lines : k <= j]

\* C2 as stated: on the one-line text "PYTHON:: a b c d e f g 0.73 h"
\* parse_slim returns "0.73" (the marker token not counting toward the index).
C2_ReturnsRate ==
    parsed /\ slim_string = SPEC_LINE => parse_result = Return("0.73")

\* C2, amended: on the one-line text "PYTHON:: a b c d e f g 0.73 h"
\* parse_slim returns "g", the token at index 7 of the line when the marker
\* token "PYTHON::" is index 0; "0.73" is the token at index 8.
C2_ReturnsIndex7 ==
    parsed /\ slim_string = SPEC_LINE =>
        /\ parse_result = Return("g")
        /\ split_ws(SPEC_LINE)[1] = "PYTHON::"
        /\ split_ws(SPEC_LINE)[7 + 1] = "g"
        /\ split_ws(SPEC_LINE)[8 + 1] = "0.73"

C2_Witness ==
    parsed /\ slim_string = SPEC_LINE /\ parse_result.kind = "return"

\* C3: on a text with no line that starts with "PYTHON:: " parse_slim raises
\* a designated parsing error, and not an unbound-variable fault.
C3_DesignatedError ==
    parsed /\ marker_lines = {} =>
        /\ parse_result.kind = "raise"
        /\ parse_result.val = "ParseError"
        /\ parse_result.val # "UnboundLocalError"

\* C4: on a text with at least one line that starts with "PYTHON:: "
\* parse_slim returns the token at index 7 of the last such line; the earlier
\* marker lines, whatever their number of tokens, do not affect the result.
C4_LastMarkerLine ==
    parsed /\ marker_lines # {} /\ Len(split_ws(last_marker_line)) >= 8 =>
        parse_result = Return(split_ws(last_marker_line)[8])

-----------------------------------------------------------------------------
(* Properties of collect_data and main, under Spec                         *)

Uniform == sim.at = 0

\* the sample that collect_data derives from the outcome o of one invocation
sample_of(o) == drive_conversion_of(float(parse_slim(o.out).val).val)

\* the lines of text that start with the marker
marker_lines_of(text) ==
    LET lines == split_sep(text, "\n")
    IN  {j \in 1..Len(lines) : startswith(lines[j], MARKER)}

\* the tokens of the last marker line of text
last_marker_tokens(text) ==
    LET lines == split_sep(text, "\n")
        ms == marker_lines_of(text)
    IN  split_ws(lines[CHOOSE j \in ms : \A k \in ms : k <= j])

\* the outcome o gives no sample: no marker line, or a field that is no number
unusable(o) ==
    \/ marker_lines_of(o.out) = {}
    \/ Len(last_marker_tokens(o.out)) < 8
    \/ float(last_marker_tokens(o.out)[8]).kind = "raise"

\* collect_data has just returned to main
returned_old == pc = "sweep" /\ num_grnas = 0 /\ args_dict_new # 0
returned_new == pc = "plot"
returned_value == IF returned_new THEN drive_conversion_ngrnas_new
                  ELSE drive_conversion_ngrnas_old

ONE == [s |-> 0, m |-> <<128, 0, 0, 0>>, e |-> -52]

\* the number of significant bits of the float a
SigBits(a) == IF a.m = <<>> THEN 0 ELSE PREC - TrailingZeros(a.m)

\* fabs(a - x) <= 2^-48 * fabs(x)
Within48(a, x) == AbsGeq([x EXCEPT !.e = x.e - 48], FSub(a, x))

\* C5 as stated: when every invocation reports the same value v, collect_data
\* returns 12 elements, each equal to (v - 0.5) / 0.5.
C5_ExactMeans ==
    (returned_old \/ returned_new) /\ Uniform =>
        /\ Len(returned_value) = range_stop - 1
        /\ \A k \in 1..Len(returned_value) :
               returned_value[k] = sample_of(sim.dflt)

\* C5, amended: when every invocation reports the same value v, collect_data
\* returns 12 identical elements, each the float mean of 20 copies of
\* x = (v - 0.5) / 0.5: it equals x when x has at most 48 significant bits
\* (v = 0.5, v = 1.0), and is within the relative error 2^-48 of x otherwise.
C5_RoundedMeans ==
    (returned_old \/ returned_new) /\ Uniform =>
        LET x == sample_of(sim.dflt)
        IN  /\ Len(returned_value) = range_stop - 1
            /\ \A k \in 1..Len(returned_value) :
                   /\ returned_value[k] = returned_value[1]
                   /\ SigBits(x) <= 48 => returned_value[k] = x
                   /\ Within48(returned_value[k], x)

C5_Witness ==
    /\ returned_new /\ Uniform
    /\ Len(drive_conversion_ngrnas_new) = range_stop - 1
    /\ drive_conversion_ngrnas_new[1] = ONE

\* the positions of proc that hold a definition of NUM_GRNAS
sweep_tokens == {j \in 1..Len(proc) : startswith(proc[j], "NUM_GRNAS=")}

special_done ==
    /\ sim.at > 0 /\ invocations >= sim.at
    /\ ~(pc = "wait" /\ invocations = sim.at)

\* C7: when the child process fails (non-zero exit status, or a crash), the
\* failure surfaces as a "simulation run failed" error: run_slim does not
\* return normally with the output text.
C7_FailureSurfaces ==
    special_done /\ sim.special.rc # 0 =>
        pc = "raised" /\ err = "SimulationRunFailed"

base_dict == <<[k |-> "source", v |-> StrV(DEFAULT_SOURCE)],
               [k |-> "CAPACITY", v |-> IntV(50000000)],
               [k |-> "DROP_SIZE", v |-> IntV(1000)]>>

\* d without its entry for key k
without(d, k) == SelectSeq(d, LAMBDA item : item.k # k)

\* C9: the two calls of collect_data share no mutable state: each gets
\* its own copy of the base mapping, collect_data changes only the NUM_GRNAS
\* entry of the mapping it is given, and the base mapping is never changed;
\* the commands of the new pass are those of a fresh new-configuration
\* mapping, whatever the old pass did.
C9_NoSharedState ==
    /\ args_dict # 0 => heap[args_dict] = base_dict
    /\ args_dict_old # 0 =>
        /\ args_dict_old # args_dict
        /\ without(heap[args_dict_old], "NUM_GRNAS") = old_settings(base_dict)
    /\ args_dict_new # 0 =>
        /\ args_dict_new \notin {args_dict, args_dict_old}
        /\ without(heap[args_dict_new], "NUM_GRNAS") = new_settings(base_dict)
        /\ heap[args_dict_old] = set_sweep(old_settings(base_dict), range_stop - 1)
    /\ pc = "wait" /\ args_dict_new # 0 =>
           proc = configure_slim_command_line(
                      set_sweep(new_settings(base_dict), num_grnas)).val

C9_Witness ==
    /\ pc = "wait" /\ args_dict_new # 0 /\ num_grnas = 1
    /\ dict_get(heap[args_dict_old], "NUM_GRNAS") = IntV(range_stop - 1)

\* C10: the 480 invocations are strictly sequential, at most one child
\* process at a time, all of the old configuration before any of the new;
\* plot is called exactly once, after all of them have finished, with the
\* two returned sequences (old, new), each of length 12 and unchanged since
\* collect_data returned it; if every invocation reports 1.0, both are
\* twelve values 1.0.
C10_Inv ==
    /\ live \in {0, 1} /\ (live = 1 <=> pc = "wait")
    /\ invocations <= 2 * (range_stop - 1) * total_runs
    /\ args_dict_new = 0 => invocations <= (range_stop - 1) * total_runs
    /\ args_dict_new # 0 =>
        /\ invocations >= (range_stop - 1) * total_runs
        /\ pc = "wait" => invocations > (range_stop - 1) * total_runs
        /\ Len(drive_conversion_ngrnas_old) = range_stop - 1
    /\ Len(plot_calls) = (IF pc = "done" THEN 1 ELSE 0)
    /\ pc \in {"plot", "done"} =>
        /\ live = 0
        /\ invocations = 2 * (range_stop - 1) * total_runs
        /\ Len(drive_conversion_ngrnas_new) = range_stop - 1
    /\ pc = "done" =>
        /\ plot_calls[1].old = drive_conversion_ngrnas_old
        /\ plot_calls[1].new = drive_conversion_ngrnas_new
        /\ Uniform /\ sim.dflt = Good("1.0") =>
               \A k \in 1..(range_stop - 1) :
                   plot_calls[1].old[k] = ONE /\ plot_calls[1].new[k] = ONE

C10_Step ==
    /\ drive_conversion_ngrnas_old # <<>> =>
           drive_conversion_ngrnas_old' = drive_conversion_ngrnas_old
    /\ drive_conversion_ngrnas_new # <<>> =>
           drive_conversion_ngrnas_new' = drive_conversion_ngrnas_new
    /\ invocations' # invocations => live = 0 /\ invocations' = invocations + 1

=============================================================================
